---- MODULE Spec2Model ----
(***************************************************************************)
(* A model of python-decouple (src/decouple/__init__.py): the resolver     *)
(* Config.get, the three repositories, the .env line parser, the upward    *)
(* file search of AutoConfig and its lazily built, cached Config.          *)
(*                                                                         *)
(* Python strings are sequences of one-character strings.  A Python value  *)
(* is a record [t, s, n]: t is the type, s the characters of a str, n the  *)
(* number of an int or bool.  The result of an expression that may raise   *)
(* is a record [kind, val, exc].                                           *)
(***************************************************************************)
EXTENDS Integers, Sequences, FiniteSets, TLC

VARIABLES
    environ,      \* os.environ: a function from the set names to their values
    repository,   \* Config.repository: [kind, section, data]
    pc,           \* position of the running Config.get call
    option,       \* its arguments ...
    default,
    cast,
    value,        \* its local `value`
    source,       \* which branch assigned `value`
    outcome,      \* what the call returned or raised
    lookupKey,    \* the key of the last direct repository[key]
    lookupResult, \* and what it returned or raised
    fileLines,    \* the lines of the .env file RepositoryEnv reads
    wrote,        \* the text written after "K=" on its last line
    data,         \* RepositoryEnv.data
    loaded,       \* RepositoryEnv.__init__ has run
    fs,           \* the directories from the root down: depth -> name -> kind
    startPath,    \* the absolute directory the search starts from
    filename,     \* what _find_file returned
    found,        \* _find_file has run
    abspathRaises,\* os.path.abspath(path) raises (the working directory is gone)
    config,       \* AutoConfig.config: 0 for None, else the Config instance
    heap,         \* the Config instances built so far: their repositories
    tpc,          \* per thread: position in AutoConfig.__call__
    targs,        \* per thread: the arguments of its call
    tfile,        \* per thread: the local `filename` of _load
    served,       \* per thread: the Config instance that served its call
    tout,         \* per thread: what its call returned or raised
    loads,        \* number of runs of the discovery in _load
    unsetReads,   \* number of times line 209 found self.config unset
    calls         \* number of calls begun

getVars == <<pc, option, default, cast, value, source, outcome>>
storeVars == <<lookupKey, lookupResult>>
envFileVars == <<fileLines, wrote, data, loaded>>
findVars == <<filename, found>>
fsVars == <<fs, startPath, abspathRaises>>
autoVars == <<config, heap, tpc, targs, tfile, served, tout, loads, unsetReads, calls>>

vars == <<environ, repository, getVars, storeVars, envFileVars, findVars, fsVars,
          autoVars>>

notGet == <<storeVars, envFileVars, findVars, fsVars, autoVars>>

(***************************************************************************)
(* Bounds of the model.                                                    *)
(***************************************************************************)
MaxStrLen == 2      \* longest of the exhaustively enumerated short strings
MaxValLen == 4      \* longest text after "K=" on a line of the .env file
MaxDepth == 2       \* depth of the deepest directory below the root
MaxCalls == 3       \* calls made on one AutoConfig instance

(***************************************************************************)
(* Python values and results.                                              *)
(***************************************************************************)
PyStr(s)  == [t |-> "str", s |-> s, n |-> 0]
PyInt(n)  == [t |-> "int", s |-> <<>>, n |-> n]
PyBool(b) == [t |-> "bool", s |-> <<>>, n |-> IF b THEN 1 ELSE 0]
PyNone    == [t |-> "None", s |-> <<>>, n |-> 0]
undefined == [t |-> "Undefined", s |-> <<>>, n |-> 0]

Ret(v)   == [kind |-> "return", val |-> v, exc |-> "-"]
Raise(e) == [kind |-> "raise", val |-> PyNone, exc |-> e]
NoOutcome == [kind |-> "none", val |-> PyNone, exc |-> "-"]

(***************************************************************************)
(* str.lower() on the characters the model uses.                           *)
(***************************************************************************)
LowerChar(c) ==
    CASE c = "Y" -> "y" [] c = "E" -> "e" [] c = "S" -> "s" [] c = "T" -> "t"
      [] c = "R" -> "r" [] c = "U" -> "u" [] c = "O" -> "o" [] c = "N" -> "n"
      [] c = "F" -> "f" [] c = "A" -> "a" [] c = "L" -> "l" [] c = "X" -> "x"
      [] OTHER -> c

Lower(s) == [i \in 1..Len(s) |-> LowerChar(s[i])]

(***************************************************************************)
(* str(value) for the values the model uses.                               *)
(***************************************************************************)
Digit(d) == CASE d = 0 -> "0" [] d = 1 -> "1" [] d = 2 -> "2" [] d = 3 -> "3"
              [] d = 4 -> "4" [] d = 5 -> "5" [] d = 6 -> "6" [] d = 7 -> "7"
              [] d = 8 -> "8" [] d = 9 -> "9"

RECURSIVE NatStr(_)
NatStr(n) == IF n < 10 THEN <<Digit(n)>>
             ELSE Append(NatStr(n \div 10), Digit(n % 10))

IntStr(n) == IF n < 0 THEN <<"-">> \o NatStr(0 - n) ELSE NatStr(n)

str(v) ==
    CASE v.t = "str"  -> v.s
      [] v.t = "int"  -> IntStr(v.n)
      [] v.t = "bool" -> IF v.n = 1 THEN <<"T", "r", "u", "e">>
                         ELSE <<"F", "a", "l", "s", "e">>
      [] v.t = "None" -> <<"N", "o", "n", "e">>

(***************************************************************************)
(* distutils.util.strtobool: the token table, after lower().               *)
(***************************************************************************)
TrueTokens == { <<"y">>, <<"y", "e", "s">>, <<"t">>, <<"t", "r", "u", "e">>,
                <<"o", "n">>, <<"1">> }

FalseTokens == { <<"n">>, <<"n", "o">>, <<"f">>, <<"f", "a", "l", "s", "e">>,
                 <<"o", "f", "f">>, <<"0">> }

strtobool(val) ==
    LET v == Lower(val)
    IN  IF v \in TrueTokens THEN Ret(PyInt(1))
        ELSE IF v \in FalseTokens THEN Ret(PyInt(0))
        ELSE Raise("ValueError")

(***************************************************************************)
(* Config._cast_boolean.                                                   *)
(***************************************************************************)
CastBooleanUnstringified(v) ==
    \* a version that looks at the value itself, not at str(value)
    IF v.t = "str"
    THEN IF v.s = <<>> THEN Ret(PyBool(FALSE))
         ELSE LET r == strtobool(v.s)
              IN  IF r.kind = "raise" THEN r ELSE Ret(PyBool(r.val.n # 0))
    ELSE Ret(PyBool(v.t # "None" /\ v.n # 0))

_cast_boolean(v) ==
    LET s == str(v)
    IN  IF s = <<>> THEN Ret(PyBool(FALSE))
        ELSE LET r == strtobool(s)
             IN  IF r.kind = "raise" THEN r ELSE Ret(PyBool(r.val.n # 0))

(***************************************************************************)
(* The tail of Config.get: `if cast is bool: cast = self._cast_boolean`,   *)
(* then `return cast(value)`.  The casts are _cast_do_nothing and bool.    *)
(***************************************************************************)
Casts == {"identity", "bool"}

ApplyCast(c, v) == IF c = "bool" THEN _cast_boolean(v) ELSE Ret(v)

(***************************************************************************)
(* The repositories.  data maps the options of the file to raw strings;    *)
(* section tells whether an ini file has its [settings] section.           *)
(***************************************************************************)
RepositoryEmpty == [kind |-> "Empty", section |-> FALSE, data |-> <<>>]
RepositoryIni(hasSection, d) == [kind |-> "Ini", section |-> hasSection, data |-> d]
RepositoryEnvOf(d) == [kind |-> "Env", section |-> FALSE, data |-> d]

\* ConfigParser.get with BasicInterpolation, for values without "%(":
\* "%%" is "%", any other "%" is an InterpolationSyntaxError.
RECURSIVE Interpolate(_)
Interpolate(s) ==
    IF s = <<>> THEN Ret(PyStr(<<>>))
    ELSE IF s[1] # "%"
         THEN LET r == Interpolate(Tail(s))
              IN  IF r.kind = "raise" THEN r ELSE Ret(PyStr(<<s[1]>> \o r.val.s))
         ELSE IF Len(s) >= 2 /\ s[2] = "%"
              THEN LET r == Interpolate(Tail(Tail(s)))
                   IN  IF r.kind = "raise" THEN r ELSE Ret(PyStr(<<"%">> \o r.val.s))
              ELSE Raise("InterpolationSyntaxError")

\* __contains__ of the three classes
RepoContains(repo, env, key) ==
    CASE repo.kind = "Empty" -> FALSE
      [] repo.kind = "Ini"   -> key \in DOMAIN env
                                \/ (repo.section /\ key \in DOMAIN repo.data)
      [] repo.kind = "Env"   -> key \in DOMAIN env \/ key \in DOMAIN repo.data

\* __getitem__ of the three classes
RepoGetItem(repo, key) ==
    CASE repo.kind = "Empty" -> Ret(PyNone)
      [] repo.kind = "Ini"   ->
            IF ~repo.section THEN Raise("NoSectionError")
            ELSE IF key \notin DOMAIN repo.data THEN Raise("NoOptionError")
            ELSE Interpolate(repo.data[key])
      [] repo.kind = "Env"   ->
            IF key \in DOMAIN repo.data THEN Ret(PyStr(repo.data[key]))
            ELSE Raise("KeyError")

(***************************************************************************)
(* RepositoryEnv.__init__ (lines 123-136): the .env file, line by line.    *)
(***************************************************************************)
Whitespace == {" ", "\t", "\n"}
Quotes == {"'", "\""}

\* str.strip(chars): every leading and every trailing character in chars
RECURSIVE LStrip(_, _)
LStrip(s, chars) ==
    IF s # <<>> /\ s[1] \in chars THEN LStrip(Tail(s), chars) ELSE s

RECURSIVE RStrip(_, _)
RStrip(s, chars) ==
    IF s # <<>> /\ s[Len(s)] \in chars
    THEN RStrip(SubSeq(s, 1, Len(s) - 1), chars) ELSE s

Strip(s, chars) == RStrip(LStrip(s, chars), chars)

\* v.strip('\'"') of line 135
StripQuotes(v, chars) == Strip(v, chars)

\* the index of the first "=" of a line that has one
FirstEq(line) == CHOOSE i \in 1..Len(line) :
                    line[i] = "=" /\ \A j \in 1..(i - 1) : line[j] # "="

\* the body of the loop, lines 128-136: d is self.data before the line
ParseLine(d, rawline) ==
    LET line == Strip(rawline, Whitespace)
    IN  IF line = <<>> \/ line[1] = "#" \/ \A i \in 1..Len(line) : line[i] # "="
        THEN d
        ELSE LET e  == FirstEq(line)
                 k  == Strip(SubSeq(line, 1, e - 1), Whitespace)
                 v0 == Strip(SubSeq(line, e + 1, Len(line)), Whitespace)
                 v  == IF Len(v0) >= 2
                          /\ (  (v0[1] = "'" /\ v0[Len(v0)] = "'")
                             \/ (v0[1] = "\"" /\ v0[Len(v0)] = "\""))
                       THEN StripQuotes(v0, Quotes)
                       ELSE v0
             IN  [x \in DOMAIN d \cup {k} |-> IF x = k THEN v ELSE d[x]]

\* the whole loop: self.data after the lines
RECURSIVE ParseLines(_, _)
ParseLines(d, lines) ==
    IF lines = <<>> THEN d
    ELSE ParseLines(ParseLine(d, Head(lines)), Tail(lines))

(***************************************************************************)
(* AutoConfig._find_file (lines 167-180).  An absolute path is the         *)
(* sequence of its components after "/": the root is <<"/">>, /a/b is      *)
(* <<"/", "a", "b">>; the empty string '' is the empty sequence.           *)
(***************************************************************************)
SUPPORTED == << "settings.ini", ".env" >>

Root == <<"/">>   \* os.path.abspath(os.sep)
NoFile == <<>>    \* ''

DirName(d) == CASE d = 1 -> "a" [] d = 2 -> "b" [] d = 3 -> "c" [] d = 4 -> "d"
                [] OTHER -> "e"

\* the directory at depth d of the chain
Dir(d) == Root \o [i \in 1..d |-> DirName(i)]

\* the depth of a directory: 0 for the root
Depth(path) == Len(path) - 1

\* os.path.dirname of an absolute directory
dirname(path) == IF path = Root THEN Root ELSE SubSeq(path, 1, Len(path) - 1)

\* os.path.basename of a file name
basename(file) == IF file = NoFile THEN "" ELSE file[Len(file)]

\* os.path.isfile(os.path.join(path, configfile))
isfile(f, path, configfile) == f[Depth(path)][configfile] \in {"file", "locked"}

\* the test of line 176 that decides whether the parent is searched
SearchParent(path, parent) == parent # NoFile /\ parent # Root

RECURSIVE _find_file(_, _)
_find_file(f, path) ==
    IF \E i \in 1..Len(SUPPORTED) : isfile(f, path, SUPPORTED[i])
    THEN LET i == CHOOSE i \in 1..Len(SUPPORTED) :
                    /\ isfile(f, path, SUPPORTED[i])
                    /\ \A j \in 1..(i - 1) : ~isfile(f, path, SUPPORTED[j])
         IN  Append(path, SUPPORTED[i])
    ELSE LET parent == dirname(path)
         IN  IF SearchParent(path, parent) THEN _find_file(f, parent) ELSE NoFile

(***************************************************************************)
(* The inputs of the model.                                                *)
(***************************************************************************)
K == <<"K">>
L == <<"L">>
Options == {K, L}
NoOption == <<>>

UpperChar(c) ==
    CASE c = "y" -> "Y" [] c = "e" -> "E" [] c = "s" -> "S" [] c = "t" -> "T"
      [] c = "r" -> "R" [] c = "u" -> "U" [] c = "o" -> "O" [] c = "n" -> "N"
      [] c = "f" -> "F" [] c = "a" -> "A" [] c = "l" -> "L" [] c = "x" -> "X"
      [] OTHER -> c

\* every spelling of a token in upper and lower case
CaseVariants(tok) ==
    { s \in [1..Len(tok) -> {tok[i] : i \in 1..Len(tok)}
                             \cup {UpperChar(tok[i]) : i \in 1..Len(tok)}] :
        \A i \in 1..Len(tok) : s[i] \in {tok[i], UpperChar(tok[i])} }

ShortAlphabet == {"y", "N", "1", " "}

ShortStrings == UNION { [1..k -> ShortAlphabet] : k \in 0..MaxStrLen }

NonTokens == { <<"m", "a", "y", "b", "e">>, <<"N", "o", "t", "B", "o", "o", "l">>,
               <<"2">>, <<"t", "r", "u">>, <<"y", "e", "s", " ">> }

Strings == UNION { CaseVariants(tok) : tok \in TrueTokens \cup FalseTokens }
           \cup ShortStrings \cup NonTokens

EnvValues == { <<>>, <<"O", "n">> }

StoreValues == { <<>>, <<"n", "o">>, <<"%", "%">>, <<"%">> }

Defaults == { undefined, PyNone, PyInt(0), PyInt(1), PyInt(2),
              PyBool(TRUE), PyBool(FALSE) }
            \cup { PyStr(s) : s \in Strings }

\* the files of the model: K with any of the store values, L with "no"
Datas == { d \in UNION { [S -> StoreValues] : S \in SUBSET Options } :
             L \in DOMAIN d => d[L] = <<"n", "o">> }

Repositories == { RepositoryEmpty }
                \cup { RepositoryEnvOf(d) : d \in Datas }
                \cup { RepositoryIni(TRUE, d) : d \in Datas }
                \cup { RepositoryIni(FALSE, <<>>) }

(***************************************************************************)
(* The parts of the state a specification does not exercise stay as they   *)
(* are after the imports: nothing called, nothing read.                    *)
(***************************************************************************)
Threads == {1, 2}

Names == { SUPPORTED[i] : i \in 1..Len(SUPPORTED) }

NoArgs == [option |-> NoOption, default |-> undefined, cast |-> "identity"]

GetQuiet ==
    /\ pc = "idle"
    /\ option = NoOption
    /\ default = undefined
    /\ cast = "identity"
    /\ value = PyNone
    /\ source = "none"
    /\ outcome = NoOutcome

StoreQuiet == lookupKey = NoOption /\ lookupResult = NoOutcome

EnvFileQuiet == fileLines = <<>> /\ wrote = <<>> /\ data = <<>> /\ loaded = FALSE

FindQuiet == filename = NoFile /\ found = FALSE

FsQuiet ==
    /\ fs = [d \in {0} |-> [n \in Names |-> "none"]]
    /\ startPath = Root
    /\ abspathRaises = FALSE

\* AutoConfig.__init__ (lines 163-165): config is None, no file is touched
AutoInit ==
    /\ config = 0
    /\ heap = <<>>
    /\ tpc = [t \in Threads |-> "idle"]
    /\ targs = [t \in Threads |-> NoArgs]
    /\ tfile = [t \in Threads |-> NoFile]
    /\ served = [t \in Threads |-> 0]
    /\ tout = [t \in Threads |-> NoOutcome]
    /\ loads = 0
    /\ unsetReads = 0
    /\ calls = 0

(***************************************************************************)
(* Config.get, statement by statement (lines 63-75).                       *)
(***************************************************************************)
Idle == pc = "idle"

InitGet ==
    /\ environ = <<>>
    /\ repository \in Repositories
    /\ GetQuiet /\ StoreQuiet /\ EnvFileQuiet /\ FindQuiet /\ FsQuiet /\ AutoInit

\* config.get(o, d, c) is called
Call(o, d, c) ==
    /\ Idle
    /\ pc' = "l63"
    /\ option' = o /\ default' = d /\ cast' = c
    /\ value' = PyNone
    /\ source' = "none"
    /\ outcome' = NoOutcome
    /\ UNCHANGED <<environ, repository>>
    /\ UNCHANGED notGet

\* a line 63 that asks the file of the store before the environment
L63StoreFirst ==
    /\ pc = "l63"
    /\ pc' = IF RepoContains(repository, <<>>, option) THEN "l66"
             ELSE IF option \in DOMAIN environ THEN "l64" ELSE "l67"
    /\ UNCHANGED <<environ, repository, option, default, cast, value, source, outcome>>
    /\ UNCHANGED notGet

\* if option in os.environ:
L63 ==
    /\ pc = "l63"
    /\ pc' = IF option \in DOMAIN environ THEN "l64" ELSE "l65"
    /\ UNCHANGED <<environ, repository, option, default, cast, value, source, outcome>>
    /\ UNCHANGED notGet

\* value = os.environ[option]
L64 ==
    /\ pc = "l64"
    /\ IF option \in DOMAIN environ
       THEN /\ value' = PyStr(environ[option])
            /\ source' = "environ"
            /\ pc' = "l72"
            /\ UNCHANGED outcome
       ELSE /\ outcome' = Raise("KeyError")
            /\ pc' = "done"
            /\ UNCHANGED <<value, source>>
    /\ UNCHANGED <<environ, repository, option, default, cast>>
    /\ UNCHANGED notGet

\* elif option in self.repository:
L65 ==
    /\ pc = "l65"
    /\ pc' = IF RepoContains(repository, environ, option) THEN "l66" ELSE "l67"
    /\ UNCHANGED <<environ, repository, option, default, cast, value, source, outcome>>
    /\ UNCHANGED notGet

\* value = self.repository[option]
L66 ==
    /\ pc = "l66"
    /\ LET r == RepoGetItem(repository, option)
       IN  IF r.kind = "return"
           THEN /\ value' = r.val
                /\ source' = "repository"
                /\ pc' = "l72"
                /\ UNCHANGED outcome
           ELSE /\ outcome' = r
                /\ pc' = "done"
                /\ UNCHANGED <<value, source>>
    /\ UNCHANGED <<environ, repository, option, default, cast>>
    /\ UNCHANGED notGet

\* a line 67 that takes None, too, for "no default given"
L67NoneIsUndefined ==
    /\ pc = "l67"
    /\ IF default.t \in {"Undefined", "None"}
       THEN /\ outcome' = Raise("UndefinedValueError")
            /\ pc' = "done"
            /\ UNCHANGED <<value, source>>
       ELSE /\ value' = default
            /\ source' = "default"
            /\ pc' = "l72"
            /\ UNCHANGED outcome
    /\ UNCHANGED <<environ, repository, option, default, cast>>
    /\ UNCHANGED notGet

\* elif isinstance(default, Undefined): raise ... else: value = default
L67 ==
    /\ pc = "l67"
    /\ IF default.t = "Undefined"
       THEN /\ outcome' = Raise("UndefinedValueError")
            /\ pc' = "done"
            /\ UNCHANGED <<value, source>>
       ELSE /\ value' = default
            /\ source' = "default"
            /\ pc' = "l72"
            /\ UNCHANGED outcome
    /\ UNCHANGED <<environ, repository, option, default, cast>>
    /\ UNCHANGED notGet

\* if cast is bool: ...; return cast(value)
L72 ==
    /\ pc = "l72"
    /\ outcome' = ApplyCast(cast, value)
    /\ pc' = "done"
    /\ UNCHANGED <<environ, repository, option, default, cast, value, source>>
    /\ UNCHANGED notGet

\* os.environ[o] = v
EnvSet(o, v) ==
    /\ environ' = [k \in DOMAIN environ \cup {o} |-> IF k = o THEN v ELSE environ[k]]
    /\ UNCHANGED <<repository, pc, option, default, cast, value, source, outcome>>
    /\ UNCHANGED notGet

\* del os.environ[o]
EnvDel(o) ==
    /\ o \in DOMAIN environ
    /\ environ' = [k \in DOMAIN environ \ {o} |-> environ[k]]
    /\ UNCHANGED <<repository, pc, option, default, cast, value, source, outcome>>
    /\ UNCHANGED notGet

\* the environment changed by the thread that makes the calls: between calls
Setenv(o, v) == Idle /\ EnvSet(o, v)

Delenv(o) == Idle /\ EnvDel(o)

\* the environment changed by another thread: between any two statements
OtherThreadSetenv(o, v) == EnvSet(o, v)

OtherThreadDelenv(o) == EnvDel(o)

\* the caller has the result; the next statement of its thread runs
Return ==
    /\ pc = "done"
    /\ pc' = "idle"
    /\ option' = NoOption /\ default' = undefined /\ cast' = "identity"
    /\ value' = PyNone
    /\ source' = "none"
    /\ outcome' = NoOutcome
    /\ UNCHANGED <<environ, repository>>
    /\ UNCHANGED notGet

Next ==
    \/ \E o \in Options, d \in Defaults, c \in Casts : Call(o, d, c)
    \/ L63
    \/ L64
    \/ L65
    \/ L66
    \/ L67
    \/ L72
    \/ Return
    \/ \E o \in Options, v \in EnvValues : Setenv(o, v)
    \/ \E o \in Options : Delenv(o)

Spec == InitGet /\ [][Next]_vars

(***************************************************************************)
(* Config.get while another thread changes os.environ.                     *)
(***************************************************************************)
RaceDefaults == { undefined, PyNone, PyStr(<<"y">>) }

NextRace ==
    \/ \E o \in Options, d \in RaceDefaults, c \in Casts : Call(o, d, c)
    \/ L63
    \/ L64
    \/ L65
    \/ L66
    \/ L67
    \/ L72
    \/ Return
    \/ \E o \in Options, v \in EnvValues : OtherThreadSetenv(o, v)
    \/ \E o \in Options : OtherThreadDelenv(o)

SpecRace == InitGet /\ [][NextRace]_vars

(***************************************************************************)
(* Direct use of a repository: repository[key].                            *)
(***************************************************************************)
GetItem(key) ==
    /\ lookupKey' = key
    /\ lookupResult' = RepoGetItem(repository, key)
    /\ UNCHANGED <<environ, repository, getVars, envFileVars, findVars, fsVars,
                   autoVars>>

InitStore ==
    /\ environ = <<>>
    /\ repository \in Repositories
    /\ GetQuiet /\ StoreQuiet /\ EnvFileQuiet /\ FindQuiet /\ FsQuiet /\ AutoInit

NextStore ==
    \/ \E key \in Options : GetItem(key)
    \/ \E o \in Options, v \in EnvValues : Setenv(o, v)
    \/ \E o \in Options : Delenv(o)

SpecStore == InitStore /\ [][NextStore]_vars

(***************************************************************************)
(* RepositoryEnv('.env') on a file whose last line is K=<wrote>.           *)
(***************************************************************************)
ValAlphabet == {"a", "'", "\"", " ", "="}

RawValues == UNION { [1..k -> ValAlphabet] : k \in 0..MaxValLen }

\* what the file holds before its last line
Preambles == { <<>>,
               << <<"#", "K", "=", "a", "\n">> >>,
               << <<"\n">> >>,
               << <<"K", "\n">> >>,
               << <<"K", " ", "=", " ", "b", "\n">> >> }

WriteLine(k, raw) == k \o <<"=">> \o raw \o <<"\n">>

InitEnvFile ==
    /\ environ = <<>>
    /\ repository = RepositoryEmpty
    /\ \E raw \in RawValues, pre \in Preambles :
          /\ wrote = raw
          /\ fileLines = Append(pre, WriteLine(K, raw))
    /\ data = <<>>
    /\ loaded = FALSE
    /\ GetQuiet /\ StoreQuiet /\ FindQuiet /\ FsQuiet /\ AutoInit

\* RepositoryEnv.__init__
Construct ==
    /\ ~loaded
    /\ data' = ParseLines(<<>>, fileLines)
    /\ loaded' = TRUE
    /\ UNCHANGED <<environ, repository, fileLines, wrote, getVars, storeVars,
                   findVars, fsVars, autoVars>>

NextEnvFile == Construct

SpecEnvFile == InitEnvFile /\ [][NextEnvFile]_vars

(***************************************************************************)
(* _find_file from a directory of a chain of MaxDepth directories below    *)
(* the root, each holding neither, either or both of the supported names,  *)
(* as a regular file or as a directory.                                    *)
(***************************************************************************)
FindKinds == {"none", "file", "dir"}

InitFind ==
    /\ environ = <<>>
    /\ repository = RepositoryEmpty
    /\ fs \in [0..MaxDepth -> [Names -> FindKinds]]
    /\ startPath \in { Dir(d) : d \in 0..MaxDepth }
    /\ abspathRaises = FALSE
    /\ GetQuiet /\ StoreQuiet /\ EnvFileQuiet /\ FindQuiet /\ AutoInit

FindFile ==
    /\ ~found
    /\ filename' = _find_file(fs, startPath)
    /\ found' = TRUE
    /\ UNCHANGED <<environ, repository, getVars, storeVars, envFileVars, fsVars,
                   autoVars>>

NextFind == FindFile

SpecFind == InitFind /\ [][NextFind]_vars

(***************************************************************************)
(* Config.get as one step, for a caller that is not interleaved with it.   *)
(***************************************************************************)
get(env, repo, o, d, c) ==
    IF o \in DOMAIN env THEN ApplyCast(c, PyStr(env[o]))
    ELSE IF RepoContains(repo, env, o)
         THEN LET r == RepoGetItem(repo, o)
              IN  IF r.kind = "raise" THEN r ELSE ApplyCast(c, r.val)
    ELSE IF d.t = "Undefined" THEN Raise("UndefinedValueError")
    ELSE ApplyCast(c, d)

(***************************************************************************)
(* AutoConfig (lines 163-213).  Every .env file of the model holds         *)
(* DotEnvLines, every settings.ini the options SettingsIni under           *)
(* [settings]; open() of a "locked" file raises PermissionError.           *)
(***************************************************************************)
DotEnvLines == << <<"K", "=", "'", "n", "o", "'", "\n">> >>

SettingsIni == (K :> <<"%", "%">>)

\* lines 188 and 190: Repository = SUPPORTED.get(basename, RepositoryEmpty),
\* then Repository(filename): the result is the store built, or what open raised
Repository(f, file) ==
    LET name == basename(file)
    IN  IF name \notin Names
        THEN [kind |-> "return", repo |-> RepositoryEmpty, exc |-> "-"]
        ELSE IF f[Depth(dirname(file))][name] = "locked"
        THEN [kind |-> "raise", repo |-> RepositoryEmpty, exc |-> "PermissionError"]
        ELSE IF name = "settings.ini"
        THEN [kind |-> "return", repo |-> RepositoryIni(TRUE, SettingsIni), exc |-> "-"]
        ELSE [kind |-> "return", repo |-> RepositoryEnvOf(ParseLines(<<>>, DotEnvLines)),
              exc |-> "-"]

\* a thread calls config(o, d, c): AutoConfig.__call__ begins
Begin(t, o, d, c) ==
    /\ tpc[t] \in {"idle", "done"}
    /\ calls < MaxCalls
    /\ calls' = calls + 1
    /\ tpc' = [tpc EXCEPT ![t] = "l209"]
    /\ targs' = [targs EXCEPT ![t] = [option |-> o, default |-> d, cast |-> c]]
    /\ tfile' = [tfile EXCEPT ![t] = NoFile]
    /\ served' = [served EXCEPT ![t] = 0]
    /\ tout' = [tout EXCEPT ![t] = NoOutcome]
    /\ UNCHANGED <<config, heap, loads, unsetReads>>
    /\ UNCHANGED <<environ, repository, getVars, storeVars, envFileVars, findVars, fsVars>>

\* the same, by a program whose calls do not overlap
BeginAlone(t, o, d, c) ==
    /\ \A u \in Threads : tpc[u] \in {"idle", "done"}
    /\ Begin(t, o, d, c)

\* line 209: if not self.config:
L209(t) ==
    /\ tpc[t] = "l209"
    /\ IF config = 0
       THEN /\ tpc' = [tpc EXCEPT ![t] = "l185"]
            /\ unsetReads' = unsetReads + 1
       ELSE /\ tpc' = [tpc EXCEPT ![t] = "l213"]
            /\ UNCHANGED unsetReads
    /\ UNCHANGED <<config, heap, targs, tfile, served, tout, loads, calls>>
    /\ UNCHANGED <<environ, repository, getVars, storeVars, envFileVars, findVars, fsVars>>

\* a line 185 that looks at self.config again and searches only if it is unset
L185Rechecked(t) ==
    /\ tpc[t] = "l185"
    /\ IF config = 0
       THEN /\ tfile' = [tfile EXCEPT ![t] =
                            IF abspathRaises THEN NoFile ELSE _find_file(fs, startPath)]
            /\ loads' = loads + 1
            /\ tpc' = [tpc EXCEPT ![t] = "l188"]
       ELSE /\ tpc' = [tpc EXCEPT ![t] = "l213"]
            /\ UNCHANGED <<tfile, loads>>
    /\ UNCHANGED <<config, heap, targs, served, tout, unsetReads, calls>>
    /\ UNCHANGED <<environ, repository, getVars, storeVars, envFileVars, findVars, fsVars>>

\* lines 184-187 of _load: the search, and '' if anything in it raises
L185(t) ==
    /\ tpc[t] = "l185"
    /\ tfile' = [tfile EXCEPT ![t] =
                    IF abspathRaises THEN NoFile ELSE _find_file(fs, startPath)]
    /\ loads' = loads + 1
    /\ tpc' = [tpc EXCEPT ![t] = "l188"]
    /\ UNCHANGED <<config, heap, targs, served, tout, unsetReads, calls>>
    /\ UNCHANGED <<environ, repository, getVars, storeVars, envFileVars, findVars, fsVars>>

\* lines 188-190 of _load: self.config = Config(Repository(filename, ...))
L188(t) ==
    /\ tpc[t] = "l188"
    /\ LET r == Repository(fs, tfile[t])
       IN  IF r.kind = "raise"
           THEN /\ tout' = [tout EXCEPT ![t] = Raise(r.exc)]
                /\ tpc' = [tpc EXCEPT ![t] = "done"]
                /\ UNCHANGED <<config, heap>>
           ELSE /\ heap' = Append(heap, r.repo)
                /\ config' = Len(heap) + 1
                /\ tpc' = [tpc EXCEPT ![t] = "l213"]
                /\ UNCHANGED tout
    /\ UNCHANGED <<targs, tfile, served, loads, unsetReads, calls>>
    /\ UNCHANGED <<environ, repository, getVars, storeVars, envFileVars, findVars, fsVars>>

\* line 213: return self.config(option=option, default=default, cast=cast)
L213(t) ==
    /\ tpc[t] = "l213"
    /\ served' = [served EXCEPT ![t] = config]
    /\ tout' = [tout EXCEPT ![t] =
                  get(environ, heap[config], targs[t].option, targs[t].default,
                      targs[t].cast)]
    /\ tpc' = [tpc EXCEPT ![t] = "done"]
    /\ UNCHANGED <<config, heap, targs, tfile, loads, unsetReads, calls>>
    /\ UNCHANGED <<environ, repository, getVars, storeVars, envFileVars, findVars, fsVars>>

AutoKinds == {"none", "file", "locked"}

\* the supported files are in the start directory /a, if anywhere
AutoFileSystems == { f \in [0..1 -> [Names -> AutoKinds]] :
                       \A n \in Names : f[0][n] = "none" }

AutoEnvirons == { <<>>, (K :> <<"O", "n">>) }

AutoDefaults == { undefined, PyNone }

InitAuto ==
    /\ environ \in AutoEnvirons
    /\ repository = RepositoryEmpty
    /\ fs \in AutoFileSystems
    /\ startPath = Dir(1)
    /\ abspathRaises \in BOOLEAN
    /\ GetQuiet /\ StoreQuiet /\ EnvFileQuiet /\ FindQuiet /\ AutoInit

NextAuto ==
    \/ \E t \in Threads, o \in Options, d \in AutoDefaults, c \in Casts :
          BeginAlone(t, o, d, c)
    \/ \E t \in Threads : L209(t)
    \/ \E t \in Threads : L185(t)
    \/ \E t \in Threads : L188(t)
    \/ \E t \in Threads : L213(t)

SpecAuto == InitAuto /\ [][NextAuto]_vars

NextAutoRace ==
    \/ \E t \in Threads, o \in Options, d \in AutoDefaults, c \in Casts :
          Begin(t, o, d, c)
    \/ \E t \in Threads : L209(t)
    \/ \E t \in Threads : L185(t)
    \/ \E t \in Threads : L188(t)
    \/ \E t \in Threads : L213(t)

SpecAutoRace == InitAuto /\ [][NextAutoRace]_vars

(***************************************************************************)
(* What the claims speak of.                                               *)
(***************************************************************************)
\* the store holds the key in the data of its own file
StoreHolds(repo, key) ==
    CASE repo.kind = "Empty" -> FALSE
      [] repo.kind = "Ini"   -> repo.section /\ key \in DOMAIN repo.data
      [] repo.kind = "Env"   -> key \in DOMAIN repo.data

\* cast(r) for a result r: a raise passes through
CastOf(c, r) == IF r.kind = "raise" THEN r ELSE ApplyCast(c, r.val)

EqIgnoreCase(a, b) ==
    /\ Len(a) = Len(b)
    /\ \A i \in 1..Len(a) :
          a[i] = b[i] \/ UpperChar(a[i]) = b[i] \/ a[i] = UpperChar(b[i])

InEnviron == option \in DOMAIN environ

\* str(value) equals one of the tokens, ignoring case
IsTrueToken(s) == \E tok \in TrueTokens : EqIgnoreCase(s, tok)

IsFalseToken(s) == \E tok \in FalseTokens : EqIgnoreCase(s, tok)

\* the regular files on the chain of directories
IsRegular(f, d, i) == f[d][SUPPORTED[i]] \in {"file", "locked"}

\* the first regular file in the order start, parent(start), ..., root
FirstOnChain(f, start) ==
    LET hits == { c \in (0..Depth(start)) \X (1..Len(SUPPORTED)) :
                    IsRegular(f, c[1], c[2]) }
    IN  IF hits = {} THEN NoFile
        ELSE LET c == CHOOSE c \in hits :
                        \A e \in hits : e[1] < c[1] \/ (e[1] = c[1] /\ c[2] <= e[2])
             IN  Append(Dir(c[1]), SUPPORTED[c[2]])

\* the trimmed value of a line and its quoting
Trimmed(raw) == Strip(raw, Whitespace)

InMatchingQuotes(t) == Len(t) >= 2 /\ t[1] \in Quotes /\ t[Len(t)] = t[1]

\* the configuration source AutoConfig would use cannot be used
SearchResult == IF abspathRaises THEN NoFile ELSE _find_file(fs, startPath)

SourceUnusable ==
    \/ SearchResult = NoFile
    \/ fs[Depth(dirname(SearchResult))][basename(SearchResult)] = "locked"

(***************************************************************************)
(* C1: Config.get resolves by fixed precedence: an option set in the       *)
(* environment gives cast(environment value) whatever the store and the    *)
(* default hold; otherwise an option the store holds gives                 *)
(* cast(store value) whatever the default is; the default is used only     *)
(* when the option is in neither.                                          *)
(***************************************************************************)
C1_Precedence ==
    pc = "done" =>
        /\ InEnviron => outcome = ApplyCast(cast, PyStr(environ[option]))
        /\ (~InEnviron /\ StoreHolds(repository, option)) =>
               outcome = CastOf(cast, RepoGetItem(repository, option))
        /\ source = "default" => (~InEnviron /\ ~StoreHolds(repository, option))

C1_Witness ==
    /\ pc = "done"
    /\ InEnviron
    /\ StoreHolds(repository, option)
    /\ repository.data[option] # environ[option]
    /\ default.t = "str" /\ default.s # environ[option]
    /\ outcome = Ret(PyStr(environ[option]))

(***************************************************************************)
(* C2: Config.get raises UndefinedValueError exactly when the option is    *)
(* absent from the environment and from the store and the default is the   *)
(* Undefined sentinel; None is a real default: with the identity cast      *)
(* get(option, default=None) on an option defined nowhere returns None.    *)
(***************************************************************************)
C2_UndefinedIff ==
    pc = "done" =>
        /\ (outcome = Raise("UndefinedValueError"))
              <=> (~InEnviron /\ ~StoreHolds(repository, option)
                   /\ default = undefined)
        /\ (~InEnviron /\ ~StoreHolds(repository, option)
               /\ default = PyNone /\ cast = "identity") => outcome = Ret(PyNone)

C2_Witness ==
    /\ pc = "done"
    /\ ~InEnviron /\ ~StoreHolds(repository, option)
    /\ repository.kind = "Env"
    /\ default = PyNone /\ cast = "identity"
    /\ outcome = Ret(PyNone)

(***************************************************************************)
(* C3: with cast=bool the resolved value is stringified; the empty string  *)
(* gives False, a token equal ignoring case to one of y, yes, t, true, on, *)
(* 1 gives True, to one of n, no, f, false, off, 0 gives False, and any    *)
(* other non-empty string raises ValueError; so default=1 and default=True *)
(* give True, default=0 and default=False give False.                      *)
(***************************************************************************)
C3_BoolCast ==
    (pc = "done" /\ cast = "bool" /\ source # "none") =>
        LET s == str(value)
        IN  /\ s = <<>> => outcome = Ret(PyBool(FALSE))
            /\ IsTrueToken(s) => outcome = Ret(PyBool(TRUE))
            /\ IsFalseToken(s) => outcome = Ret(PyBool(FALSE))
            /\ (s # <<>> /\ ~IsTrueToken(s) /\ ~IsFalseToken(s)) =>
                   outcome = Raise("ValueError")
            /\ value \in {PyInt(1), PyBool(TRUE)} => outcome = Ret(PyBool(TRUE))
            /\ value \in {PyInt(0), PyBool(FALSE)} => outcome = Ret(PyBool(FALSE))

C3_Witness ==
    /\ pc = "done" /\ cast = "bool"
    /\ source = "default"
    /\ default = PyBool(TRUE)
    /\ outcome = Ret(PyBool(TRUE))

(***************************************************************************)
(* C10: a missing-key lookup failure (KeyError, NoOptionError,             *)
(* NoSectionError) never escapes Config.get, and the store's item lookup   *)
(* runs only for a key held in the store's own file data, also when        *)
(* another thread sets or deletes the option in os.environ between the     *)
(* statements of the call.                                                 *)
(***************************************************************************)
C10_NoLookupFailureEscapes ==
    /\ pc = "l66" => StoreHolds(repository, option)
    /\ pc = "done" =>
          outcome.exc \notin {"KeyError", "NoOptionError", "NoSectionError"}

(***************************************************************************)
(* C4: _find_file visits start, parent(start), ..., up to and including    *)
(* the root, tries settings.ini before .env in each directory, and returns *)
(* the first existing regular file in that order; it returns not-found     *)
(* only when no directory on the chain, the root included, holds one.      *)
(***************************************************************************)
C4_SearchReachesRoot == found => filename = FirstOnChain(fs, startPath)

(***************************************************************************)
(* C5: for a line K=value the stored value is the whitespace-trimmed       *)
(* value; when the trimmed value has length >= 2 and begins and ends with  *)
(* the same quote character, exactly that one outermost pair is removed    *)
(* and every other character is kept; a lone quote character or a value    *)
(* quoted at one end only is stored unchanged.                             *)
(***************************************************************************)
C5_OnePairStripped ==
    loaded =>
        /\ K \in DOMAIN data
        /\ data[K] = IF InMatchingQuotes(Trimmed(wrote))
                     THEN SubSeq(Trimmed(wrote), 2, Len(Trimmed(wrote)) - 1)
                     ELSE Trimmed(wrote)

(***************************************************************************)
(* C8: repository[key] for a key the store does not hold fails with an     *)
(* error on every store; none returns a placeholder such as None.          *)
(***************************************************************************)
C8_MissingKeyFails ==
    (lookupKey # NoOption /\ ~StoreHolds(repository, lookupKey)) =>
        lookupResult.kind = "raise"

(***************************************************************************)
(* C6: on one AutoConfig instance whose calls do not overlap, discovery    *)
(* and store construction (_load) run during the first call only:          *)
(* constructing the instance touches no file, and every call after the     *)
(* first reuses the cached Config without scanning again, whatever the     *)
(* earlier calls returned or raised.                                       *)
(***************************************************************************)
C6_LoadInFirstCallOnly ==
    /\ calls = 0 => loads = 0
    /\ loads <= 1

(***************************************************************************)
(* C7: an AutoConfig call never surfaces a file or discovery error: if the *)
(* upward search fails, or the file it found cannot be opened, the call    *)
(* behaves as with no configuration source (environment value, else        *)
(* default, else UndefinedValueError).                                     *)
(***************************************************************************)
C7_DegradesToEmptyStore ==
    \A t \in Threads :
        (tpc[t] = "done" /\ SourceUnusable) =>
            tout[t] = get(environ, RepositoryEmpty, targs[t].option,
                          targs[t].default, targs[t].cast)

(***************************************************************************)
(* C9: the cache-on-first-use is not safe under concurrent first access:   *)
(* a thread that read self.config as unset runs _load whether or not       *)
(* another thread has stored a Config since, so two threads that both read *)
(* it unset both run the discovery and can be served by different Config   *)
(* instances.                                                              *)
(***************************************************************************)
C9_EveryUnsetReadLoads ==
    loads + Cardinality({ t \in Threads : tpc[t] = "l185" }) = unsetReads

C9_Witness ==
    /\ calls = 2
    /\ \A t \in Threads : tpc[t] = "done" /\ tout[t].kind = "return"
    /\ loads = 2
    /\ unsetReads = 2
    /\ served[1] # served[2]
====
